---- MODULE Spec2Model ----
(***************************************************************************)
(* Account lifecycle, permission grants and the cleanup scheduler of       *)
(* home_stats (src/src/db/repositories/user_repo.py,                       *)
(* src/src/services/user_cleanup.py, src/src/api/v1/endpoints/).           *)
(*                                                                         *)
(* Conventions.                                                            *)
(*  - The clock `now` counts whole days: asyncio.sleep(86400) is one unit. *)
(*    datetime.now() and datetime.utcnow() differ by less than a unit.     *)
(*  - An Optional value (SQL NULL, Python None) is the empty set, a        *)
(*    present value v is {v}.                                              *)
(*  - A table is what committed transactions have written.  Uncommitted    *)
(*    writes live in the transaction that made them (tx_del).              *)
(*  - One step is the code between two awaits of one coroutine.            *)
(*  - A storage call may raise at any await (connection lost, statement    *)
(*    or commit failing): the ...Fails actions.                            *)
(*  - A method of AuthService, of UserRepository or of core/security.py is *)
(*    modelled statement by statement, with the types its arguments have   *)
(*    at run time.  The connection pool hands out connections, the tables  *)
(*    have the columns the statements name, and a payload is what          *)
(*    jwt.decode makes of what jwt.encode was given.                       *)
(***************************************************************************)
EXTENDS Integers, FiniteSets, Sequences, TLC

\* ---------------------------------------------------------------- bounds
MaxUsers       == 3   \* ids the users table ever hands out
SeedUsers      == 2   \* rows already in the database when the service starts
Horizon        == 3   \* days the clock advances
MaxTasks       == 2   \* loop tasks ever created by start_daily_cleanup
MaxGrantRows   == 2   \* rows per (user, permission) the table may hold
MaxReqs        == 2   \* HTTP requests in flight at once

\* ------------------------------------------------------ program constants
GracePeriodDays == 30  \* DataCleanupService(user_repo, grace_period_days=30)
SleepDays       == 1   \* asyncio.sleep(86400)
MinPasswordLen  == 8   \* register_user: len(password) < 8
AccessExpiryDays  == 0 \* access_token_expiry_minutes = 30: less than a day
RefreshExpiryDays == 7 \* refresh_token_expiry_days = 7

\* The service starts two days before the seeded deletions reach the grace
\* period, so that passes run at T+29, T+30 and T+31.
StartDay == GracePeriodDays - 2

UserIds == 1..MaxUsers
Emails  == 1..MaxUsers    \* seeded row u has address u; the others are not registered
Perms   == {"admin:permissions", "admin:delete_user"}
Reasons == {"user_request"}

NULL == {}
None == {}

\* A password is its sequence of characters.
Pw(n, c) == [i \in 1..n |-> c]

Passwords == {Pw(MinPasswordLen - 1, "a"), Pw(MinPasswordLen, "a"), Pw(MinPasswordLen, "b")}

\* pwd_context.hash(password): the bcrypt hash, a str.  Salts are left out: a
\* hash is told by the password it was made of.
hash_password(password) == <<"$2b$", password>>

\* pwd_context.verify(plain_password, hashed_password)
verify_password(plain_password, hashed_password) ==
    hashed_password = hash_password(plain_password)

\* The password of the accounts the database holds when the service starts.
SeedPassword == Pw(MinPasswordLen, "a")

VARIABLES
    now,                 \* the wall clock, in days
    users,               \* table users: id -> row
    next_id,             \* next id uuid_generate_v4() hands out (never reused)
    user_permissions,    \* table user_permissions: <<user_id, permission>> -> number of rows
    tasks,               \* every asyncio task start_daily_cleanup created; self._task is the last
    next_cleanup,        \* DataCleanupService.next_cleanup
    last_cleanup,        \* DataCleanupService.last_cleanup
    last_cleanup_result, \* DataCleanupService.last_cleanup_result
    start_ret,           \* what the last start_daily_cleanup call logged
    stopper,             \* the caller of stop_cleanup: where it is and the task it awaits
    reqs,                \* the HTTP requests in flight: handler, await reached, arguments, status
    resp,                \* a sequential repository client: its current run of identical calls
    last_call,           \* the latest call of AuthService or its repository: arguments, outcome
    manual               \* the latest call of DataCleanupService.manual_cleanup: its pass

vars == <<now, users, next_id, user_permissions, tasks, next_cleanup,
          last_cleanup, last_cleanup_result, start_ret, stopper, reqs, resp, last_call,
          manual>>

dbVars     == <<users, next_id, user_permissions>>
schedVars  == <<tasks, next_cleanup, last_cleanup, last_cleanup_result, start_ret, stopper>>
clientVars == <<reqs, resp, last_call, manual>>

\* ------------------------------------------------------------ the tables

UserRow(email, active, deleted_at, reason) ==
    [email |-> email, hashed_password |-> hash_password(SeedPassword),
     is_active |-> active, deleted_at |-> deleted_at,
     deletion_reason |-> reason, role |-> "user"]

NoGrants == [k \in UserIds \X Perms |-> 0]

\* SELECT ... FROM users WHERE id = %s [AND is_active = true AND deleted_at IS NULL]
get_user_by_id(uid, include_deleted) ==
    IF uid \notin DOMAIN users THEN None
    ELSE IF include_deleted THEN {[id |-> uid] @@ users[uid]}
    ELSE IF users[uid].is_active /\ users[uid].deleted_at = NULL
         THEN {[id |-> uid, email |-> users[uid].email,
                hashed_password |-> users[uid].hashed_password,
                is_active |-> users[uid].is_active, role |-> users[uid].role]}
         ELSE None

\* SELECT id, email, hashed_password, created_at, is_active FROM users WHERE email = %s
get_user_by_email(email) ==
    {[id |-> u, email |-> users[u].email,
      hashed_password |-> users[u].hashed_password,
      is_active |-> users[u].is_active] :
        u \in {v \in DOMAIN users : users[v].email = email}}

\* (the query with `<=` for `<`: a row is taken on the last day of its grace period)
get_expired_inclusive(cutoff_date) ==
    {u \in DOMAIN users :
        /\ users[u].deleted_at # NULL
        /\ \E d \in users[u].deleted_at : d <= cutoff_date
        /\ users[u].is_active = FALSE}

\* SELECT ... WHERE deleted_at IS NOT NULL AND deleted_at < %s AND is_active = false
get_expired_soft_deleted_users(cutoff_date) ==
    {u \in DOMAIN users :
        /\ users[u].deleted_at # NULL
        /\ \E d \in users[u].deleted_at : d < cutoff_date
        /\ users[u].is_active = FALSE}

\* UPDATE users SET deleted_at = now, deletion_reason = %s, is_active = false WHERE id = %s
soft_delete_rows(uid, reason) ==
    [u \in DOMAIN users |->
        IF u = uid
        THEN [users[u] EXCEPT !.deleted_at = {now}, !.deletion_reason = {reason},
                              !.is_active = FALSE]
        ELSE users[u]]

\* (the UPDATE without is_active: the row stays inactive)
recover_rows_inactive(uid) ==
    [u \in DOMAIN users |->
        IF u = uid
        THEN [users[u] EXCEPT !.deleted_at = NULL, !.deletion_reason = NULL]
        ELSE users[u]]

\* UPDATE users SET deleted_at = NULL, deletion_reason = NULL, is_active = true WHERE id = %s
recover_rows(uid) ==
    [u \in DOMAIN users |->
        IF u = uid
        THEN [users[u] EXCEPT !.deleted_at = NULL, !.deletion_reason = NULL,
                              !.is_active = TRUE]
        ELSE users[u]]

\* DELETE FROM user_permissions WHERE user_id = %s : the rows the statement deletes
hard_delete_perm_rows(uid) == [p \in Perms |-> user_permissions[<<uid, p>>]]

\* The two DELETEs of hard_delete_user, as conn.commit() makes them visible.
Monus(a, b) == IF a >= b THEN a - b ELSE 0

committed_permissions(uid, tx_del) ==
    [k \in UserIds \X Perms |->
        IF k[1] = uid THEN Monus(user_permissions[k], tx_del[k[2]])
        ELSE user_permissions[k]]

committed_users(uid) == [u \in DOMAIN users \ {uid} |-> users[u]]

\* ------------------------------------------------ DataCleanupService state

NoTx == [p \in Perms |-> 0]

\* A task of _daily_cleanup_loop.  pc is the await it is suspended at:
\*   "sleeping"  asyncio.sleep(86400)
\*   "fetching"  user_repo.get_expired_soft_deleted_users(cutoff_date)
\*   "del_perms" hard_delete_user: DELETE FROM user_permissions
\*   "del_user"  hard_delete_user: DELETE FROM users, conn.commit()
\*   "done"      the coroutine has returned
\* cancel: Task.cancel() was called and CancelledError is not yet delivered.
\* failed: the users the pass logged "Failed to delete user" for, with the
\* statement that raised.
Sleeping(wake) ==
    [pc |-> "sleeping", wake |-> wake, cancel |-> FALSE, cleanup_start |-> 0,
     cutoff_date |-> 0, expired_users |-> {}, todo |-> {}, cur |-> 0,
     deleted_count |-> 0, failed |-> {}, tx_del |-> NoTx]

Done == [Sleeping(0) EXCEPT !.pc = "done"]

Tasks == 1..Len(tasks)

InPass(t) == tasks[t].pc \in {"fetching", "del_perms", "del_user"}

Live(t) == tasks[t].pc # "done"

\* (the guard of start_daily_cleanup left out)
TaskRunningNever == FALSE

\* self._task and not self._task.done()
TaskRunning == tasks # <<>> /\ tasks[Len(tasks)].pc # "done"

\* start_daily_cleanup: the guard, else asyncio.create_task(self._daily_cleanup_loop()).
\* The new task runs to its first await, asyncio.sleep(86400), in the same step.
start_daily_cleanup ==
    /\ IF TaskRunning
       THEN /\ start_ret' = "already_running"
            /\ UNCHANGED tasks
       ELSE /\ Len(tasks) < MaxTasks
            /\ tasks' = Append(tasks, Sleeping(now + SleepDays))
            /\ start_ret' = "started"
    /\ UNCHANGED <<now, dbVars, next_cleanup, last_cleanup, last_cleanup_result,
                   stopper, clientVars>>

\* stop_cleanup, to its await: nothing to do when self._task is None, else
\* self._task.cancel() (no effect on a task that is done) and await self._task.
StopCancel ==
    /\ stopper.pc # "awaiting"
    /\ IF tasks = <<>>
       THEN /\ stopper' = [pc |-> "returned", target |-> 0]
            /\ UNCHANGED tasks
       ELSE /\ stopper' = [pc |-> "awaiting", target |-> Len(tasks)]
            /\ tasks' = [tasks EXCEPT ![Len(tasks)].cancel = (tasks[Len(tasks)].pc # "done")]
    /\ UNCHANGED <<now, dbVars, next_cleanup, last_cleanup, last_cleanup_result,
                   start_ret, clientVars>>

\* (stop_cleanup without `await self._task`)
AwaitedTaskAny == TRUE

\* `await self._task` completes once the task is done.
AwaitedTaskDone == tasks[stopper.target].pc = "done"

StopReturn ==
    /\ stopper.pc = "awaiting"
    /\ AwaitedTaskDone
    /\ stopper' = [pc |-> "returned", target |-> stopper.target]
    /\ UNCHANGED <<now, dbVars, tasks, next_cleanup, last_cleanup, last_cleanup_result,
                   start_ret, clientVars>>

\* ------------------------------------------------- _daily_cleanup_loop

\* asyncio.sleep(86400) returns; cleanup_start = datetime.now();
\* cleanup_expired_deletions computes cutoff_date and awaits the query.
LoopWake(t) ==
    /\ tasks[t].pc = "sleeping"
    /\ ~tasks[t].cancel
    /\ now >= tasks[t].wake
    /\ tasks' = [tasks EXCEPT ![t].pc = "fetching",
                              ![t].cleanup_start = now,
                              ![t].cutoff_date = now - GracePeriodDays]
    /\ UNCHANGED <<now, dbVars, next_cleanup, last_cleanup, last_cleanup_result,
                   start_ret, stopper, clientVars>>

\* The for loop of cleanup_expired_deletions once a user is dealt with: the
\* next user's hard_delete_user or, the list exhausted, `return deleted_count`
\* and the loop's record of the pass, up to the next asyncio.sleep(86400).
Advance(t, todo, count, failed) ==
    IF todo = {}
    THEN /\ tasks' = [tasks EXCEPT ![t] = Sleeping(now + SleepDays)]
         /\ last_cleanup' = {tasks[t].cleanup_start}
         /\ next_cleanup' = {now + SleepDays}
         /\ last_cleanup_result' = {[deleted_users |-> count, status |-> "success"]}
    ELSE /\ \E u \in todo :
              tasks' = [tasks EXCEPT ![t].pc = "del_perms", ![t].cur = u,
                                     ![t].todo = todo \ {u},
                                     ![t].deleted_count = count,
                                     ![t].failed = failed,
                                     ![t].tx_del = NoTx]
         /\ UNCHANGED <<last_cleanup, next_cleanup, last_cleanup_result>>

\* (`except Exception` of the loop with `break` for the record)
LoopBreaks(t) ==
    /\ tasks' = [tasks EXCEPT ![t] = Done]
    /\ UNCHANGED <<last_cleanup, next_cleanup, last_cleanup_result>>

\* `except Exception` of the loop: the failed result, next_cleanup (from
\* datetime.utcnow()), last_cleanup untouched, and back to `while True`.
LoopFailed(t) ==
    /\ tasks' = [tasks EXCEPT ![t] = Sleeping(now + SleepDays)]
    /\ last_cleanup_result' = {[deleted_users |-> 0, status |-> "failed"]}
    /\ next_cleanup' = {now + SleepDays}
    /\ UNCHANGED last_cleanup

\* The query returns: expired_users, and the first hard_delete_user.
LoopFetch(t) ==
    /\ tasks[t].pc = "fetching"
    /\ ~tasks[t].cancel
    /\ LET expired == get_expired_soft_deleted_users(tasks[t].cutoff_date) IN
         IF expired = {}
         THEN Advance(t, {}, 0, {})
         ELSE /\ \E u \in expired :
                   tasks' = [tasks EXCEPT ![t].pc = "del_perms", ![t].cur = u,
                                          ![t].expired_users = expired,
                                          ![t].todo = expired \ {u}]
              /\ UNCHANGED <<last_cleanup, next_cleanup, last_cleanup_result>>
    /\ UNCHANGED <<now, dbVars, start_ret, stopper, clientVars>>

\* The query raises: nothing in cleanup_expired_deletions catches it.
LoopFetchFails(t) ==
    /\ tasks[t].pc = "fetching"
    /\ ~tasks[t].cancel
    /\ LoopFailed(t)
    /\ UNCHANGED <<now, dbVars, start_ret, stopper, clientVars>>

\* (each statement committed as it runs)
HardDeletePermsAutocommit(t) ==
    /\ tasks[t].pc = "del_perms"
    /\ ~tasks[t].cancel
    /\ user_permissions' =
          committed_permissions(tasks[t].cur, hard_delete_perm_rows(tasks[t].cur))
    /\ tasks' = [tasks EXCEPT ![t].pc = "del_user"]
    /\ UNCHANGED <<now, users, next_id, next_cleanup, last_cleanup, last_cleanup_result,
                   start_ret, stopper, clientVars>>

\* hard_delete_user, first statement: the grants' rows are deleted inside the
\* transaction.
HardDeletePerms(t) ==
    /\ tasks[t].pc = "del_perms"
    /\ ~tasks[t].cancel
    /\ tasks' = [tasks EXCEPT ![t].pc = "del_user",
                              ![t].tx_del = hard_delete_perm_rows(tasks[t].cur)]
    /\ UNCHANGED <<now, dbVars, next_cleanup, last_cleanup, last_cleanup_result,
                   start_ret, stopper, clientVars>>

\* (the for loop without its try/except: the exception leaves the pass)
HardDeleteFailsAborting(t) ==
    /\ tasks[t].pc \in {"del_perms", "del_user"}
    /\ ~tasks[t].cancel
    /\ LoopFailed(t)
    /\ UNCHANGED <<now, dbVars, start_ret, stopper, clientVars>>

\* hard_delete_user raises at either statement or at the commit:
\* conn.rollback(), raise e; the pass logs it and goes on with the next user.
HardDeleteFails(t) ==
    /\ tasks[t].pc \in {"del_perms", "del_user"}
    /\ ~tasks[t].cancel
    /\ Advance(t, tasks[t].todo, tasks[t].deleted_count,
               tasks[t].failed \cup {[id |-> tasks[t].cur, at |-> tasks[t].pc]})
    /\ UNCHANGED <<now, dbVars, start_ret, stopper, clientVars>>

\* hard_delete_user, second statement and conn.commit(); `cursor.rowcount > 0`
\* is the row count of DELETE FROM users.
HardDeleteCommit(t) ==
    /\ tasks[t].pc = "del_user"
    /\ ~tasks[t].cancel
    /\ users' = committed_users(tasks[t].cur)
    /\ user_permissions' = committed_permissions(tasks[t].cur, tasks[t].tx_del)
    /\ Advance(t, tasks[t].todo,
               IF tasks[t].cur \in DOMAIN users THEN tasks[t].deleted_count + 1
               ELSE tasks[t].deleted_count,
               tasks[t].failed)
    /\ UNCHANGED <<now, next_id, start_ret, stopper, clientVars>>

\* CancelledError is thrown into the await the task is suspended at.  It is not
\* an Exception: it passes the pass's handler, the connection's context rolls
\* the open transaction back, and `except asyncio.CancelledError: break` ends
\* the coroutine.
LoopCancelled(t) ==
    /\ tasks[t].pc # "done"
    /\ tasks[t].cancel
    /\ tasks' = [tasks EXCEPT ![t] = Done]
    /\ UNCHANGED <<now, dbVars, next_cleanup, last_cleanup, last_cleanup_result,
                   start_ret, stopper, clientVars>>

\* ... unless the commit was already with the server, which completes it.
LoopCancelledInFlight(t) ==
    /\ tasks[t].pc = "del_user"
    /\ tasks[t].cancel
    /\ users' = committed_users(tasks[t].cur)
    /\ user_permissions' = committed_permissions(tasks[t].cur, tasks[t].tx_del)
    /\ tasks' = [tasks EXCEPT ![t] = Done]
    /\ UNCHANGED <<now, next_id, next_cleanup, last_cleanup, last_cleanup_result,
                   start_ret, stopper, clientVars>>

\* ------------------------------------------------- manual_cleanup

\* A call of DataCleanupService.manual_cleanup.  pc is the await it is
\* suspended at, as for a task of the loop, or "idle" (no call yet),
\* "returned" (result is {deleted_users}), "raised" (the query raised); the
\* locals of a call are those of its pass and are gone when it returns.
NoManual ==
    [pc |-> "idle", cutoff_date |-> 0, expired_users |-> {}, todo |-> {}, cur |-> 0,
     deleted_count |-> 0, failed |-> {}, tx_del |-> NoTx, start_time |-> 0,
     result |-> {}]

\* manual_cleanup: start_time = datetime.now(); cleanup_expired_deletions
\* computes cutoff_date and awaits the query.
manual_cleanup ==
    /\ manual.pc \in {"idle", "returned", "raised"}
    /\ manual' = [NoManual EXCEPT !.pc = "fetching", !.start_time = now,
                                  !.cutoff_date = now - GracePeriodDays]
    /\ UNCHANGED <<now, dbVars, schedVars, reqs, resp, last_call>>

\* (manual_cleanup recording its pass as the loop does)
ManualAdvanceRecording(todo, count, failed) ==
    IF todo = {}
    THEN /\ manual' = [NoManual EXCEPT !.pc = "returned",
                                       !.deleted_count = count,
                                       !.result = {count}]
         /\ last_cleanup' = {manual.start_time}
         /\ UNCHANGED <<tasks, next_cleanup, last_cleanup_result, start_ret, stopper>>
    ELSE /\ \E u \in todo :
              manual' = [manual EXCEPT !.pc = "del_perms", !.cur = u,
                                      !.todo = todo \ {u},
                                      !.deleted_count = count,
                                      !.failed = failed,
                                      !.tx_del = NoTx]
         /\ UNCHANGED schedVars

\* The for loop of cleanup_expired_deletions in a manual pass: the next user's
\* hard_delete_user or, the list exhausted, `return deleted_count` and the
\* dict manual_cleanup returns.  No attribute of the service is assigned.
ManualAdvance(todo, count, failed) ==
    IF todo = {}
    THEN /\ manual' = [NoManual EXCEPT !.pc = "returned",
                                       !.deleted_count = count,
                                       !.result = {count}]
         /\ UNCHANGED schedVars
    ELSE /\ \E u \in todo :
              manual' = [manual EXCEPT !.pc = "del_perms", !.cur = u,
                                      !.todo = todo \ {u},
                                      !.deleted_count = count,
                                      !.failed = failed,
                                      !.tx_del = NoTx]
         /\ UNCHANGED schedVars

\* The query returns: expired_users, and the first hard_delete_user.
ManualFetch ==
    /\ manual.pc = "fetching"
    /\ LET expired == get_expired_soft_deleted_users(manual.cutoff_date) IN
         IF expired = {}
         THEN ManualAdvance({}, 0, {})
         ELSE /\ \E u \in expired :
                   manual' = [manual EXCEPT !.pc = "del_perms", !.cur = u,
                                           !.expired_users = expired,
                                           !.todo = expired \ {u}]
              /\ UNCHANGED schedVars
    /\ UNCHANGED <<now, dbVars, reqs, resp, last_call>>

\* The query raises: manual_cleanup catches nothing.
ManualFetchFails ==
    /\ manual.pc = "fetching"
    /\ manual' = [NoManual EXCEPT !.pc = "raised"]
    /\ UNCHANGED <<now, dbVars, schedVars, reqs, resp, last_call>>

\* hard_delete_user, first statement.
ManualDeletePerms ==
    /\ manual.pc = "del_perms"
    /\ manual' = [manual EXCEPT !.pc = "del_user",
                                !.tx_del = hard_delete_perm_rows(manual.cur)]
    /\ UNCHANGED <<now, dbVars, schedVars, reqs, resp, last_call>>

\* hard_delete_user raises: rollback, the pass logs it (the log is not part
\* of the call's state) and goes on.
ManualDeleteFails ==
    /\ manual.pc \in {"del_perms", "del_user"}
    /\ ManualAdvance(manual.todo, manual.deleted_count, manual.failed)
    /\ UNCHANGED <<now, dbVars, reqs, resp, last_call>>

\* hard_delete_user, second statement and conn.commit().
ManualDeleteCommit ==
    /\ manual.pc = "del_user"
    /\ users' = committed_users(manual.cur)
    /\ user_permissions' = committed_permissions(manual.cur, manual.tx_del)
    /\ ManualAdvance(manual.todo,
                     IF manual.cur \in DOMAIN users THEN manual.deleted_count + 1
                     ELSE manual.deleted_count,
                     manual.failed)
    /\ UNCHANGED <<now, next_id, reqs, resp, last_call>>

\* ------------------------------------------------- the clock, the account requests

Tick ==
    /\ now < StartDay + Horizon
    /\ now' = now + 1
    /\ UNCHANGED <<dbVars, schedVars, clientVars>>

\* The clock with no last day.  Up to the horizon it is Tick; from then on the
\* day is no longer counted (now stands for "that day or later") and a day
\* that passes is seen only by the tasks asleep, whose asyncio.sleep(86400)
\* comes to its end.
TickUnbounded ==
    /\ now' = IF now < StartDay + Horizon THEN now + 1 ELSE now
    /\ tasks' = IF now < StartDay + Horizon
                THEN tasks
                ELSE [t \in DOMAIN tasks |->
                        IF tasks[t].pc = "sleeping" /\ tasks[t].wake > now
                        THEN [tasks[t] EXCEPT !.wake = now]
                        ELSE tasks[t]]
    /\ UNCHANGED <<dbVars, next_cleanup, last_cleanup, last_cleanup_result,
                   start_ret, stopper, clientVars>>

soft_delete_user(uid, reason) ==
    /\ UNCHANGED <<now, next_id, user_permissions, schedVars, clientVars>>
    /\ users' = soft_delete_rows(uid, reason)

recover_user(uid) ==
    /\ UNCHANGED <<now, next_id, user_permissions, schedVars, clientVars>>
    /\ users' = recover_rows(uid)

\* ------------------------------------------------- permission grants

\* SELECT 1 FROM user_permissions WHERE user_id = %s AND permission = %s LIMIT 1
user_has_permission(uid, perm) == user_permissions[<<uid, perm>>] > 0

\* INSERT INTO user_permissions (user_id, permission, granted_at, granted_by):
\* no statement of the schema (DatabasePool._create_schema) constrains the pair.
granted_permissions(uid, perm) ==
    [user_permissions EXCEPT ![<<uid, perm>>] = @ + 1]

\* (DELETE that removes one row of the pair)
revoked_one_row(uid, perm) ==
    [user_permissions EXCEPT ![<<uid, perm>>] = Monus(@, 1)]

\* DELETE FROM user_permissions WHERE user_id = %s AND permission = %s
revoked_permissions(uid, perm) ==
    [user_permissions EXCEPT ![<<uid, perm>>] = 0]

\* cursor.rowcount of that DELETE
revoke_rowcount(uid, perm) ==
    user_permissions[<<uid, perm>>] - revoked_permissions(uid, perm)[<<uid, perm>>]

Slots == 1..MaxReqs

\* A request slot: the handler running in it and the await it has reached, or,
\* idle, the status of the response it gave last (0: none yet).
Idle(status) == [handler |-> "none", pc |-> "idle", uid |-> 0, perm |-> "", status |-> status]

InFlight(handler, pc, uid, perm) ==
    [handler |-> handler, pc |-> pc, uid |-> uid, perm |-> perm, status |-> 0]

Respond(r, status) == reqs' = [reqs EXCEPT ![r] = Idle(status)]

\* admin.grant_permission / admin.revoke_permsission, to the first check:
\* target_user = get_user_by_id(user_id), 404 when none.
RequestGetUser(r, handler, uid, perm) ==
    /\ reqs[r].pc = "idle"
    /\ IF get_user_by_id(uid, FALSE) = None
       THEN Respond(r, 404)
       ELSE reqs' = [reqs EXCEPT ![r] =
                        InFlight(handler, IF handler = "admin_grant" THEN "has_perm"
                                          ELSE "revoke", uid, perm)]
    /\ UNCHANGED <<now, dbVars, schedVars, resp, last_call, manual>>

\* admin.grant_permission: `if await user_repo.user_has_permission(...)`, 409.
AdminGrantHasPerm(r) ==
    /\ reqs[r].pc = "has_perm"
    /\ IF user_has_permission(reqs[r].uid, reqs[r].perm)
       THEN Respond(r, 409)
       ELSE reqs' = [reqs EXCEPT ![r].pc = "insert"]
    /\ UNCHANGED <<now, dbVars, schedVars, resp, last_call, manual>>

\* admin.grant_permission: user_repo.grant_user_permission(...), 200.
AdminGrantInsert(r) ==
    /\ reqs[r].pc = "insert"
    /\ user_permissions[<<reqs[r].uid, reqs[r].perm>>] < MaxGrantRows
    /\ user_permissions' = granted_permissions(reqs[r].uid, reqs[r].perm)
    /\ Respond(r, 200)
    /\ UNCHANGED <<now, users, next_id, schedVars, resp, last_call, manual>>

\* api/v1/endpoints/auth.py grant_permission: the insert and nothing else.
AuthGrant(r, uid, perm) ==
    /\ reqs[r].pc = "idle"
    /\ user_permissions[<<uid, perm>>] < MaxGrantRows
    /\ user_permissions' = granted_permissions(uid, perm)
    /\ Respond(r, 200)
    /\ UNCHANGED <<now, users, next_id, schedVars, resp, last_call, manual>>

\* admin.revoke_permsission: success = revoke_user_permission(...), 404 when not.
AdminRevoke(r) ==
    /\ reqs[r].pc = "revoke"
    /\ user_permissions' = revoked_permissions(reqs[r].uid, reqs[r].perm)
    /\ Respond(r, IF revoke_rowcount(reqs[r].uid, reqs[r].perm) > 0 THEN 200 ELSE 404)
    /\ UNCHANGED <<now, users, next_id, schedVars, resp, last_call, manual>>

\* A caller of the repository, one call after the other.  resp is its current
\* run of identical calls: the call and what its last two invocations returned.
NoCall == [op |-> "none", uid |-> 0, perm |-> "", rets |-> <<>>]

Returned(op, uid, perm, ret) ==
    IF resp.op = op /\ resp.uid = uid /\ resp.perm = perm
    THEN [resp EXCEPT !.rets = IF Len(@) = 0 THEN <<ret>> ELSE <<@[Len(@)], ret>>]
    ELSE [op |-> op, uid |-> uid, perm |-> perm, rets |-> <<ret>>]

\* UserRepository.grant_user_permission: returns the inserted row.
grant_user_permission(uid, perm) ==
    /\ user_permissions[<<uid, perm>>] < MaxGrantRows
    /\ user_permissions' = granted_permissions(uid, perm)
    /\ resp' = Returned("grant", uid, perm, TRUE)
    /\ UNCHANGED <<now, users, next_id, schedVars, reqs, last_call, manual>>

\* UserRepository.revoke_user_permission: returns cursor.rowcount > 0.
revoke_user_permission(uid, perm) ==
    /\ user_permissions' = revoked_permissions(uid, perm)
    /\ resp' = Returned("revoke", uid, perm, revoke_rowcount(uid, perm) > 0)
    /\ UNCHANGED <<now, users, next_id, schedVars, reqs, last_call, manual>>

\* ------------------------------------------ AuthService and its repository

\* What a call came to: the value it returned or the exception it raised.
\* kind "user": val is the id of the row returned; kind "HTTPException": val is
\* the status code.
Ret(kind, val) == [kind |-> kind, val |-> val]

\* tokens: the tokens the call was given or returned.  The fields are written
\* in the order TLC keeps them in, so that no worker reorders a record that
\* another one reads.
Call(op, email, password, uid, ret) ==
    [password |-> password, email |-> email, uid |-> uid, op |-> op, ret |-> ret,
     tokens |-> {}]

TokenCall(op, uid, tokens, ret) ==
    [Call(op, 0, <<>>, uid, ret) EXCEPT !.tokens = tokens]

Log(call) ==
    /\ last_call' = call
    /\ UNCHANGED <<now, dbVars, schedVars, reqs, resp, manual>>

\* UserRepository.create_user: hash_password returns a str, and
\* `hashed_password.decode('utf-8')`, evaluated for the statement's arguments,
\* raises AttributeError (a str has no decode): no INSERT reaches the server.
create_user_outcome(email, password) == Ret("AttributeError", 0)

create_user(email, password) ==
    Log(Call("create_user", email, password, 0, create_user_outcome(email, password)))

\* (the arguments bound in the order of the placeholders: is_active = status)
deactivate_rows_bound(uid, status) ==
    [u \in DOMAIN users |->
        IF u = uid THEN [users[u] EXCEPT !.is_active = status] ELSE users[u]]

\* UPDATE users SET is_active = %s WHERE id = %s with (user_id, status): the
\* UUID is bound to is_active and the bool compared with id; the server
\* rejects the statement (no operator uuid = boolean) and no row changes.
deactivate_rows(uid, status) == users

deactivate_user(uid, status) ==
    /\ users' = deactivate_rows(uid, status)
    /\ last_call' = Call("deactivate_user", 0, <<>>, uid, Ret("DatabaseError", 0))
    /\ UNCHANGED <<now, next_id, user_permissions, schedVars, reqs, resp, manual>>

\* AuthService.authenticate_user: get_user_by_email, then verify_password.
authenticate_user_outcome(email, password) ==
    LET user == get_user_by_email(email) IN
    IF user = None \/ \A row \in user : ~verify_password(password, row.hashed_password)
    THEN Ret("None", 0)
    ELSE Ret("user", (CHOOSE row \in user : TRUE).id)

authenticate_user(email, password) ==
    Log(Call("authenticate_user", email, password, 0,
             authenticate_user_outcome(email, password)))

\* str(user_id): the text of the UUID.
Str(uid) == [uuid |-> uid]

\* jwt.encode(to_encode, settings.secret_key, ...): the claims and the key that
\* signed them.  An optional claim is {} when the payload has no such key.
Encode(sub, exp, type, key) ==
    [payload |-> [sub |-> sub, exp |-> exp, type |-> type], key |-> key]

\* create_access_token(data): data and "exp"; no "type".
create_access_token(data) ==
    Encode(data.sub, now + AccessExpiryDays, {}, "secret_key")

\* create_refresh_token(data): data, "exp" and "type": "refresh".
create_refresh_token(data) ==
    Encode(data.sub, now + RefreshExpiryDays, {"refresh"}, "secret_key")

\* verify_token: jwt.decode checks the signature and "exp"; None on JWTError.
verify_token(token) ==
    IF token.key = "secret_key" /\ token.payload.exp >= now
    THEN {token.payload} ELSE None

\* AuthService.create_tokens: both tokens for {"sub": str(user_id)}.
TokenPair(user_id) ==
    {create_access_token([sub |-> {Str(user_id)}]),
     create_refresh_token([sub |-> {Str(user_id)}])}

create_tokens(user_id) ==
    Log(TokenCall("create_tokens", user_id, TokenPair(user_id), Ret("TokenResponse", 0)))

\* (refresh_access_token without `payload.get("type") != "refresh"`)
refresh_access_token_any_kind(token) ==
    LET payload == verify_token(token) IN
    IF payload = None THEN Ret("None", 0)
    ELSE IF (CHOOSE pl \in payload : TRUE).sub = {} THEN Ret("None", 0)
    ELSE Ret("ValueError", 0)

\* AuthService.refresh_access_token.  "sub" is the text of a UUID, which
\* int(user_id) refuses with ValueError: get_user_by_id and create_tokens
\* after it are never reached.
refresh_access_token_outcome(token) ==
    LET payload == verify_token(token) IN
    IF payload = None \/ (\E pl \in payload : pl.type # {"refresh"}) THEN Ret("None", 0)
    ELSE IF (CHOOSE pl \in payload : TRUE).sub = {} THEN Ret("None", 0)
    ELSE Ret("ValueError", 0)

refresh_access_token(token) ==
    Log(TokenCall("refresh_access_token", 0, {token}, refresh_access_token_outcome(token)))

\* The tokens a caller can present: the pairs create_tokens returned for any
\* id on any day so far, the same signed with another key, and a refresh
\* token that create_refresh_token({}) makes without a subject.
IssuedOn(day, user_id) ==
    {Encode({Str(user_id)}, day + AccessExpiryDays, {}, "secret_key"),
     Encode({Str(user_id)}, day + RefreshExpiryDays, {"refresh"}, "secret_key")}

Presentable ==
    LET issued == UNION {IssuedOn(day, u) : day \in StartDay..now, u \in UserIds} IN
    issued \cup {[t EXCEPT !.key = "other"] : t \in issued}
           \cup {create_refresh_token([sub |-> {}])}

\* Role, and ROLE_PERMISSIONS over the permissions of the model: Perms are
\* admin permissions, BasePerm is one every user's role gives, SystemPerm is
\* ADMIN_MANAGE_SYSTEM, which the model grants to nobody explicitly.
\* Role.SYSTEM has no entry.
Roles == {"user", "admin", "system"}

BasePerm == "user:read_own_profile"

SystemPerm == "admin:system"

ROLE_PERMISSIONS ==
    [role \in {"user", "admin"} |->
        IF role = "user" THEN {BasePerm} ELSE {BasePerm, SystemPerm} \cup Perms]

\* ROLE_PERMISSIONS.get(role, [])
role_permissions(role) ==
    IF role \in DOMAIN ROLE_PERMISSIONS THEN ROLE_PERMISSIONS[role] ELSE {}

\* UserRepository.get_user_permissions: the rows of the user, as dicts; here
\* the number of rows of each permission.
get_user_permissions(uid) == [p \in Perms |-> user_permissions[<<uid, p>>]]

\* A list of Permission, or the exception raised in its place.
Listed(perms) == [kind |-> "list", perms |-> perms]

Raised(exception) == [kind |-> exception, perms |-> {}]

\* AuthService.get_user_permissions: [] for no active user; else
\* set(role_permissions + explicit_permissions), where the explicit ones are
\* the rows themselves: a dict among them is unhashable and set() raises
\* TypeError.
auth_get_user_permissions(user_id) ==
    LET user == get_user_by_id(user_id, FALSE) IN
    IF user = None THEN Listed({})
    ELSE LET role == (CHOOSE row \in user : TRUE).role
             explicit_permissions == get_user_permissions(user_id) IN
         IF \E p \in Perms : explicit_permissions[p] > 0
         THEN Raised("TypeError")
         ELSE Listed(role_permissions(role))

\* AuthService.user_has_permission: `permission in user_permissions`.
auth_user_has_permission(user_id, permission) ==
    LET user_permissions_ == auth_get_user_permissions(user_id) IN
    IF user_permissions_.kind = "list"
    THEN Ret(IF permission \in user_permissions_.perms THEN "True" ELSE "False", 0)
    ELSE Ret(user_permissions_.kind, 0)

\* AuthService.require_resource_ownership; admin_permission is {} for None.
require_resource_ownership_outcome(user_id, resource_user_id, admin_permission) ==
    IF user_id = resource_user_id THEN Ret("return", 0)
    ELSE IF admin_permission = {} THEN Ret("HTTPException", 403)
    ELSE LET has == auth_user_has_permission(user_id, CHOOSE p \in admin_permission : TRUE) IN
         IF has.kind = "True" THEN Ret("return", 0)
         ELSE IF has.kind = "False" THEN Ret("HTTPException", 403)
         ELSE has

require_resource_ownership(user_id, resource_user_id, admin_permission) ==
    Log([Call("require_resource_ownership", 0, <<>>, user_id,
              require_resource_ownership_outcome(user_id, resource_user_id,
                                                 admin_permission))
         EXCEPT !.email = resource_user_id, !.tokens = admin_permission])

\* AuthService.require_permission: HTTPException 403 unless
\* user_has_permission; what get_user_permissions raises passes through.
require_permission_outcome(user_id, permission) ==
    LET has == auth_user_has_permission(user_id, permission) IN
    IF has.kind = "True" THEN Ret("return", 0)
    ELSE IF has.kind = "False" THEN Ret("HTTPException", 403)
    ELSE has

require_permission(user_id, permission) ==
    Log([Call("require_permission", 0, <<>>, user_id,
              require_permission_outcome(user_id, permission))
         EXCEPT !.tokens = {permission}])

\* UserRepository.hard_delete_user called on its own (delete_user endpoint):
\* both DELETEs and the commit.
hard_delete_user(uid) ==
    /\ users' = committed_users(uid)
    /\ user_permissions' = committed_permissions(uid, hard_delete_perm_rows(uid))
    /\ UNCHANGED <<now, next_id, schedVars, clientVars>>

\* (get_current_user reading the claim create_tokens writes, "sub")
get_current_user_sub(token) ==
    LET token_data == verify_token(token) IN
    IF token_data = None THEN Ret("HTTPException", 401)
    ELSE LET pl == CHOOSE pl \in token_data : TRUE IN
         IF pl.sub = {} THEN Ret("KeyError", 0)
         ELSE LET user == get_user_by_id((CHOOSE sub \in pl.sub : TRUE).uuid, FALSE) IN
              IF user = None THEN Ret("HTTPException", 401)
              ELSE IF ~(CHOOSE row \in user : TRUE).is_active
                   THEN Ret("HTTPException", 400)
                   ELSE Ret("user", (CHOOSE row \in user : TRUE).id)

\* core.security.get_current_user: 401 unless verify_token; then
\* token_data["user_id"], a key no payload of create_access_token or
\* create_refresh_token has (they carry "sub", "exp", "type"): KeyError.  The
\* lookup by that id, 401 when there is no active user, comes after it.
get_current_user_outcome(token) ==
    LET token_data == verify_token(token) IN
    IF token_data = None THEN Ret("HTTPException", 401)
    ELSE LET pl == CHOOSE pl \in token_data : TRUE IN
         IF "user_id" \notin DOMAIN pl THEN Ret("KeyError", 0)
         ELSE LET user == get_user_by_id(pl.user_id, FALSE) IN
              IF user = None THEN Ret("HTTPException", 401)
              ELSE IF ~(CHOOSE row \in user : TRUE).is_active
                   THEN Ret("HTTPException", 400)
                   ELSE Ret("user", (CHOOSE row \in user : TRUE).id)

get_current_user(token) ==
    Log(TokenCall("get_current_user", 0, {token}, get_current_user_outcome(token)))

\* ----------------------------------------------- the endpoints' dependencies

\* The bearer tokens requests carry: the access token create_tokens returns
\* today for any id, and one of them signed with another key.
Bearers ==
    LET access == {create_access_token([sub |-> {Str(u)}]) : u \in UserIds} IN
    access \cup {[create_access_token([sub |-> {Str(1)}]) EXCEPT !.key = "other"]}

\* (the dependency without auth_service.require_permission, over a
\* get_current_user that reads "sub")
permission_dependency_unchecked(token, permission) ==
    get_current_user_sub(token)

\* deps.require_permission(permission): current_user = get_current_user(...),
\* then auth_service.require_permission(current_user.id, permission), where
\* current_user is the row get_user_by_id fetched, a dict: it has no attribute
\* id, and evaluating the argument raises AttributeError.
permission_dependency_outcome(token, permission) ==
    LET current_user == get_current_user_outcome(token) IN
    IF current_user.kind # "user" THEN current_user
    ELSE Ret("AttributeError", 0)

\* resource_user_id: int, which FastAPI reads from the query string (the path
\* has user_id).  No int equals a UUID: the ints are 0, the id of no user.
ResourceIds == {0}

\* deps.require_ownership_or_permission(admin_permission).
ownership_dependency_outcome(token, resource_user_id, admin_permission) ==
    LET current_user == get_current_user_outcome(token) IN
    IF current_user.kind # "user" THEN current_user
    ELSE LET owns == require_resource_ownership_outcome(
                         current_user.val, resource_user_id, admin_permission) IN
         IF owns.kind # "return" THEN owns ELSE current_user

\* ----------------------------------------------------- admin.py endpoints

\* admin.grant_permission: the dependency, 404 without target, 409 when the
\* target has the permission, then the arguments of grant_user_permission,
\* of which UUID(current_user["id"]) raises AttributeError, the id being a
\* UUID already (UUID() takes text): the INSERT is not reached.
grant_permission_outcome(token, uid, perm) ==
    LET current_user == permission_dependency_outcome(token, "admin:permissions") IN
    IF current_user.kind # "user" THEN current_user
    ELSE IF get_user_by_id(uid, FALSE) = None THEN Ret("HTTPException", 404)
    ELSE IF user_has_permission(uid, perm) THEN Ret("HTTPException", 409)
    ELSE Ret("AttributeError", 0)

grant_permission(token, uid, perm) ==
    Log(TokenCall("grant_permission", uid, {token},
                  grant_permission_outcome(token, uid, perm)))

\* admin.revoke_permsission: the dependency, 404 without target, then
\* revoke_user_permission, 404 when it deleted no row.
revoke_permsission_outcome(token, uid, perm) ==
    LET current_user == permission_dependency_outcome(token, "admin:permissions") IN
    IF current_user.kind # "user" THEN current_user
    ELSE IF get_user_by_id(uid, FALSE) = None THEN Ret("HTTPException", 404)
    ELSE IF revoke_rowcount(uid, perm) > 0 THEN Ret("response", 200)
    ELSE Ret("HTTPException", 404)

revoke_permsission(token, uid, perm) ==
    /\ last_call' = TokenCall("revoke_permsission", uid, {token},
                              revoke_permsission_outcome(token, uid, perm))
    /\ user_permissions' =
          IF /\ permission_dependency_outcome(token, "admin:permissions").kind = "user"
             /\ get_user_by_id(uid, FALSE) # None
          THEN revoked_permissions(uid, perm)
          ELSE user_permissions
    /\ UNCHANGED <<now, users, next_id, schedVars, reqs, resp, manual>>

\* admin.manual_cleanup: the dependency, then `if not cleanup_service`: the
\* name admin.py imported from services.user_cleanup, where it is None and
\* stays None (lifespan assigns the global of main.py): 503, and
\* cleanup_service.manual_cleanup() is not reached.
admin_manual_cleanup_outcome(token) ==
    LET current_user == permission_dependency_outcome(token, SystemPerm) IN
    IF current_user.kind # "user" THEN current_user
    ELSE Ret("HTTPException", 503)

admin_manual_cleanup(token) ==
    Log(TokenCall("manual_cleanup", 0, {token}, admin_manual_cleanup_outcome(token)))

\* admin.delete_user: the dependency (own account, or ADMIN_DELETE_ANY_USER),
\* 404 unless get_user_by_id finds the target, which it does for active
\* accounts only; with hard_delete, UUID(current_user["id"]), the argument of
\* user_has_permission, raises AttributeError (the id is a UUID already) and
\* hard_delete_user is not reached; else soft_delete_user and 202.
delete_user_outcome(token, resource_user_id, uid, hard_delete) ==
    LET current_user ==
           ownership_dependency_outcome(token, resource_user_id, {"admin:delete_user"}) IN
    IF current_user.kind # "user" THEN current_user
    ELSE IF get_user_by_id(uid, FALSE) = None THEN Ret("HTTPException", 404)
    ELSE IF hard_delete THEN Ret("AttributeError", 0)
    ELSE Ret("response", 202)

delete_user(token, resource_user_id, uid, hard_delete) ==
    /\ last_call' = TokenCall("delete_user", uid, {token},
                              delete_user_outcome(token, resource_user_id, uid, hard_delete))
    /\ users' =
          IF delete_user_outcome(token, resource_user_id, uid, hard_delete)
                = Ret("response", 202)
          THEN soft_delete_rows(uid, "user_request")
          ELSE users
    /\ UNCHANGED <<now, next_id, user_permissions, schedVars, reqs, resp, manual>>

\* ------------------------------------------------------ user.py endpoints

\* Permission.ADMIN_MANAGE_USERS, which recover_account names, is no member of
\* Permission: a permission no role has and no row grants.
ManageUsersPerm == "admin:manage_users"

\* user.recover_account: the dependency, 404 without row, 400 for a row that
\* is active or has no deleted_at, 410 when utcnow() - deleted_at exceeds 30
\* days, else recover_user and 200.
recover_account_outcome(token, resource_user_id, uid) ==
    LET current_user ==
           ownership_dependency_outcome(token, resource_user_id, {ManageUsersPerm}) IN
    IF current_user.kind # "user" THEN current_user
    ELSE LET user == get_user_by_id(uid, TRUE) IN
         IF user = None THEN Ret("HTTPException", 404)
         ELSE LET row == CHOOSE row \in user : TRUE IN
              IF row.is_active THEN Ret("HTTPException", 400)
              ELSE IF row.deleted_at = NULL THEN Ret("HTTPException", 400)
              ELSE IF \E d \in row.deleted_at : now - d > GracePeriodDays
                   THEN Ret("HTTPException", 410)
                   ELSE Ret("response", 200)

recover_account(token, resource_user_id, uid) ==
    /\ last_call' = TokenCall("recover_account", uid, {token},
                              recover_account_outcome(token, resource_user_id, uid))
    /\ users' =
          IF recover_account_outcome(token, resource_user_id, uid) = Ret("response", 200)
          THEN recover_rows(uid)
          ELSE users
    /\ UNCHANGED <<now, next_id, user_permissions, schedVars, reqs, resp, manual>>

\* AuthService.register_user: the email looked up, the password measured,
\* then create_user, whose exception nothing catches (get_user_by_id and the
\* 500 after it are never reached).
\* (register_user without `if len(password) < 8`)
register_user_unmeasured(email, password) ==
    IF get_user_by_email(email) # None THEN Ret("HTTPException", 409)
    ELSE create_user_outcome(email, password)

register_user_outcome(email, password) ==
    IF get_user_by_email(email) # None THEN Ret("HTTPException", 409)
    ELSE IF Len(password) < MinPasswordLen THEN Ret("HTTPException", 400)
    ELSE create_user_outcome(email, password)

register_user(email, password) ==
    Log(Call("register_user", email, password, 0, register_user_outcome(email, password)))

\* ---------------------------------------------------------- specifications

SchedInit ==
    /\ tasks = <<>>
    /\ next_cleanup = None
    /\ last_cleanup = None
    /\ last_cleanup_result = None
    /\ start_ret = "none"
    /\ stopper = [pc |-> "idle", target |-> 0]
    /\ reqs = [r \in Slots |-> Idle(0)]
    /\ resp = NoCall
    /\ last_call = Call("none", 0, <<>>, 0, Ret("pending", 0))
    /\ manual = NoManual

\* The service starts on a database whose accounts were soft-deleted at day 0,
\* each holding one grant of every permission.
Init ==
    /\ now = StartDay
    /\ users = [u \in 1..SeedUsers |-> UserRow(u, FALSE, {0}, {"user_request"})]
    /\ next_id = SeedUsers + 1
    /\ user_permissions = [k \in UserIds \X Perms |-> IF k[1] <= SeedUsers THEN 1 ELSE 0]
    /\ SchedInit

\* The service starts on a database of active accounts without grants.
InitActive ==
    /\ now = StartDay
    /\ users = [u \in 1..SeedUsers |-> UserRow(u, TRUE, NULL, NULL)]
    /\ next_id = SeedUsers + 1
    /\ user_permissions = NoGrants
    /\ SchedInit

AccountStep ==
    \/ \E u \in UserIds, r \in Reasons : soft_delete_user(u, r)
    \/ \E u \in UserIds : recover_user(u)

LoopStep ==
    \/ \E t \in Tasks : LoopWake(t)
    \/ \E t \in Tasks : LoopFetch(t)
    \/ \E t \in Tasks : HardDeletePerms(t)
    \/ \E t \in Tasks : HardDeleteCommit(t)

\* A storage call of the pass raises.
FaultStep ==
    \/ \E t \in Tasks : LoopFetchFails(t)
    \/ \E t \in Tasks : HardDeleteFails(t)

CancelStep ==
    \/ \E t \in Tasks : LoopCancelled(t)
    \/ \E t \in Tasks : LoopCancelledInFlight(t)

GrantStep ==
    \/ \E r \in Slots, u \in UserIds, p \in Perms : RequestGetUser(r, "admin_grant", u, p)
    \/ \E r \in Slots, u \in UserIds, p \in Perms : RequestGetUser(r, "admin_revoke", u, p)
    \/ \E r \in Slots : AdminGrantHasPerm(r)
    \/ \E r \in Slots : AdminGrantInsert(r)
    \/ \E r \in Slots, u \in UserIds, p \in Perms : AuthGrant(r, u, p)
    \/ \E r \in Slots : AdminRevoke(r)

RepoStep ==
    \/ \E u \in DOMAIN users, p \in Perms : grant_user_permission(u, p)
    \/ \E u \in DOMAIN users, p \in Perms : revoke_user_permission(u, p)

\* The account lifecycle under the cleanup loop the lifespan started, the
\* storage answering every call.
Next ==
    \/ Tick
    \/ start_daily_cleanup
    \/ LoopStep
    \/ AccountStep

Spec == Init /\ [][Next]_vars

\* The cleanup loop over storage whose calls may raise.
NextFaults ==
    \/ Tick
    \/ start_daily_cleanup
    \/ LoopStep
    \/ FaultStep

SpecFaults == Init /\ [][NextFaults]_vars

\* The scheduler under any order of start_daily_cleanup and stop_cleanup.
NextSched ==
    \/ Tick
    \/ start_daily_cleanup
    \/ StopCancel
    \/ StopReturn
    \/ LoopStep
    \/ FaultStep
    \/ CancelStep

SpecSched == Init /\ [][NextSched]_vars

\* Concurrent requests to the grant and revoke endpoints.
NextGrants == GrantStep

SpecGrants == InitActive /\ [][NextGrants]_vars

\* One caller of the repository's grant and revoke.
NextRepo == RepoStep

SpecRepo == InitActive /\ [][NextRepo]_vars

\* AuthService and the account operations of the repository, one call after
\* the other.
AuthStep ==
    \/ \E e \in Emails, pw \in Passwords : register_user(e, pw)
    \/ \E e \in Emails, pw \in Passwords : authenticate_user(e, pw)
    \/ \E e \in Emails, pw \in Passwords : create_user(e, pw)
    \/ \E u \in UserIds, st \in BOOLEAN : deactivate_user(u, st)

NextAuth ==
    \/ AuthStep
    \/ \E u \in UserIds, r \in Reasons : soft_delete_user(u, r)
    \/ \E u \in UserIds : recover_user(u)

SpecAuth == InitActive /\ [][NextAuth]_vars

\* Token pairs issued and presented for refresh while accounts are soft
\* deleted and recovered and time passes.
NextTokens ==
    \/ Tick
    \/ \E u \in UserIds : create_tokens(u)
    \/ \E t \in Presentable : refresh_access_token(t)
    \/ \E u \in UserIds, r \in Reasons : soft_delete_user(u, r)
    \/ \E u \in UserIds : recover_user(u)

SpecTokens == InitActive /\ [][NextTokens]_vars

\* The database holds active accounts of any roles, without grants.
InitRoles ==
    /\ now = StartDay
    /\ users \in [1..SeedUsers -> {[UserRow(u, TRUE, NULL, NULL) EXCEPT !.role = role] :
                                     u \in 1..SeedUsers, role \in Roles}]
    /\ \A u \in 1..SeedUsers : users[u].email = u
    /\ next_id = SeedUsers + 1
    /\ user_permissions = NoGrants
    /\ SchedInit

\* Ownership checks while explicit permissions are granted and revoked.
NextPerms ==
    \/ RepoStep
    \/ \E u \in UserIds, o \in UserIds, ap \in {{}} \cup {{p} : p \in Perms \cup {BasePerm}} :
          require_resource_ownership(u, o, ap)

SpecPerms == InitRoles /\ [][NextPerms]_vars

\* Permission checks of users of any role while a permission is granted and
\* revoked and accounts are soft deleted.
NextRequire ==
    \/ \E u \in DOMAIN users : grant_user_permission(u, "admin:permissions")
    \/ \E u \in DOMAIN users : revoke_user_permission(u, "admin:permissions")
    \/ \E u \in DOMAIN users, r \in Reasons : soft_delete_user(u, r)
    \/ \E u \in UserIds, p \in Perms \cup {BasePerm} : require_permission(u, p)

SpecRequire == InitRoles /\ [][NextRequire]_vars

\* Bearer tokens presented to get_current_user while days pass.
NextBearer ==
    \/ Tick
    \/ \E u \in UserIds : create_tokens(u)
    \/ \E t \in Presentable : get_current_user(t)

SpecBearer == InitActive /\ [][NextBearer]_vars

\* ... and while accounts are soft deleted and hard deleted.
NextSession ==
    \/ NextBearer
    \/ \E u \in UserIds, r \in Reasons : soft_delete_user(u, r)
    \/ \E u \in UserIds : hard_delete_user(u)

SpecSession == InitActive /\ [][NextSession]_vars

\* The database holds active accounts without grants: user 1 is an admin, the
\* others have role user.
InitStaff ==
    /\ now = StartDay
    /\ users = [u \in 1..SeedUsers |->
                  [UserRow(u, TRUE, NULL, NULL) EXCEPT !.role = IF u = 1 THEN "admin" ELSE "user"]]
    /\ next_id = SeedUsers + 1
    /\ user_permissions = NoGrants
    /\ SchedInit

\* The admin endpoints called with any bearer token, over grants made at the
\* repository.
NextAdmin ==
    \/ \E u \in DOMAIN users : grant_user_permission(u, "admin:permissions")
    \/ \E t \in Bearers, u \in UserIds, p \in Perms : grant_permission(t, u, p)
    \/ \E t \in Bearers, u \in UserIds, p \in Perms : revoke_permsission(t, u, p)
    \/ \E t \in Bearers : admin_manual_cleanup(t)

SpecAdmin == InitStaff /\ [][NextAdmin]_vars

\* User 1 is an active admin; the other accounts were soft deleted at day 0
\* and each holds one grant of every permission.
InitAccounts ==
    /\ now = StartDay
    /\ users = [u \in 1..SeedUsers |->
                  IF u = 1 THEN [UserRow(u, TRUE, NULL, NULL) EXCEPT !.role = "admin"]
                  ELSE UserRow(u, FALSE, {0}, {"user_request"})]
    /\ next_id = SeedUsers + 1
    /\ user_permissions = [k \in UserIds \X Perms |-> IF k[1] \in 2..SeedUsers THEN 1 ELSE 0]
    /\ SchedInit

\* The account endpoints called with any bearer token while days pass and the
\* repository soft deletes and recovers accounts.
NextAccounts ==
    \/ Tick
    \/ \E u \in UserIds, r \in Reasons : soft_delete_user(u, r)
    \/ \E u \in UserIds : recover_user(u)
    \/ \E t \in Bearers, rid \in ResourceIds, u \in UserIds, hard \in BOOLEAN :
          delete_user(t, rid, u, hard)
    \/ \E t \in Bearers, rid \in ResourceIds, u \in UserIds : recover_account(t, rid, u)

SpecAccounts == InitAccounts /\ [][NextAccounts]_vars

ManualStep ==
    \/ manual_cleanup
    \/ ManualFetch
    \/ ManualFetchFails
    \/ ManualDeletePerms
    \/ ManualDeleteFails
    \/ ManualDeleteCommit

\* manual_cleanup called at any time: before the loop is started, while it
\* sleeps or runs a pass, and after stop_cleanup.
NextManual ==
    \/ Tick
    \/ start_daily_cleanup
    \/ StopCancel
    \/ LoopStep
    \/ CancelStep
    \/ ManualStep

SpecManual == Init /\ [][NextManual]_vars

\* The loop started and never stopped, over storage whose calls may raise, and
\* accounts that may be recovered; the accounts are those soft-deleted at day
\* 0, so that past the horizon every cutoff_date is after every deleted_at.
NextLive ==
    \/ TickUnbounded
    \/ start_daily_cleanup
    \/ LoopStep
    \/ FaultStep
    \/ \E u \in UserIds : recover_user(u)

\* Days pass and asyncio.sleep returns (weak fairness); a storage call that is
\* made again and again eventually succeeds (strong fairness: the call is not
\* enabled while the task sleeps between two passes).
FairLive ==
    /\ WF_vars(TickUnbounded)
    /\ WF_vars(\E t \in Tasks : LoopWake(t))
    /\ SF_vars(\E t \in Tasks : LoopFetch(t))
    /\ SF_vars(\E t \in Tasks : HardDeletePerms(t))
    /\ SF_vars(\E t \in Tasks : HardDeleteCommit(t))

SpecLive == Init /\ [][NextLive]_vars /\ FairLive

\* ------------------------------------------------------------- properties

Removed(u) == u < next_id /\ u \notin DOMAIN users

GrantsOf(u) == [p \in Perms |-> user_permissions[<<u, p>>]]

Unresolvable(u) ==
    /\ get_user_by_id(u, FALSE) = None
    /\ get_user_by_id(u, TRUE) = None
    /\ \A e \in Emails : \A row \in get_user_by_email(e) : row.id # u

\* C1.  A pass started at most 30 days after a user's soft delete (T+29, T+30)
\* does not take the user into its batch and leaves the row and its grants in
\* place; a pass started later (T+31) takes the user, and its hard delete
\* removes the row together with every grant of the user; a user once removed
\* is returned by no lookup in any later state.
C1_GracePeriodThenPermanentRemoval ==
    [][ /\ \A t \in Tasks : LoopFetch(t) =>
              \A u \in DOMAIN users : \A d \in users[u].deleted_at :
                 IF tasks[t].cleanup_start - d <= GracePeriodDays
                 THEN /\ u \notin tasks'[t].expired_users
                      /\ u # tasks'[t].cur
                      /\ u \in DOMAIN users'
                      /\ GrantsOf(u)' = GrantsOf(u)
                 ELSE ~users[u].is_active => u \in tasks'[t].expired_users
        /\ \A t \in Tasks : HardDeleteCommit(t) =>
              /\ tasks[t].cur \in tasks[t].expired_users
              /\ tasks[t].cur \notin DOMAIN users'
              /\ \A p \in Perms : user_permissions'[<<tasks[t].cur, p>>] = 0
              /\ \A v \in DOMAIN users \ {tasks[t].cur} :
                    v \in DOMAIN users' /\ users'[v] = users[v] /\ GrantsOf(v)' = GrantsOf(v)
        /\ \A u \in UserIds : Removed(u) => Removed(u)' /\ Unresolvable(u)'
      ]_vars

\* The pass started at day 0 + 31 has completed and has removed user 1, soft
\* deleted at day 0, with its grants.
C1_Witness ==
    /\ last_cleanup = {GracePeriodDays + 1}
    /\ \E res \in last_cleanup_result : res.status = "success" /\ res.deleted_users >= 1
    /\ Removed(1)
    /\ \A p \in Perms : user_permissions[<<1, p>>] = 0

\* What the loop does when a pass raises: the failed result, a new and later
\* next_cleanup, and the task alive at its next asyncio.sleep(86400).
RecordsFailureAndSleeps(t) ==
    /\ last_cleanup_result' = {[deleted_users |-> 0, status |-> "failed"]}
    /\ next_cleanup' = {now + SleepDays}
    /\ \A old \in next_cleanup : old < now + SleepDays
    /\ tasks'[t].pc = "sleeping"
    /\ tasks'[t].wake = now + SleepDays
    /\ ~tasks'[t].cancel

\* C2 as stated.  Whatever storage call of a scheduled pass a failure is
\* injected into, the pass ends recorded as failed, with next_cleanup
\* rescheduled and the loop alive.
C2_AnyFailureRecordedFailed ==
    [][ \A t \in Tasks :
          /\ InPass(t)
          /\ tasks'[t].pc \notin {"fetching", "del_perms", "del_user"}
          /\ \/ LoopFetchFails(t)
             \/ HardDeleteFails(t)
             \/ tasks[t].failed # {}
          => RecordsFailureAndSleeps(t)
      ]_vars

\* C2, amended.  When the failure makes the batch query
\* (get_expired_soft_deleted_users) raise, the loop records status "failed",
\* sets next_cleanup to a new later time, does not terminate and sleeps one
\* interval before the next pass.
C2_FetchFailureRecordedFailed ==
    [][ \A t \in Tasks : LoopFetchFails(t) => RecordsFailureAndSleeps(t) ]_vars

\* The failed result is on record and the same task is in its next pass.
C2_Witness ==
    /\ \E res \in last_cleanup_result : res.status = "failed"
    /\ \E t \in Tasks : tasks[t].pc = "fetching"

\* C3.  At most one task of the cleanup loop is live.
C3_AtMostOneLiveLoop ==
    Cardinality({t \in Tasks : Live(t)}) <= 1

\* start_daily_cleanup was called while the second loop, started after a
\* stop of the first, was running.
C3_Witness ==
    /\ start_ret = "already_running"
    /\ Len(tasks) = MaxTasks
    /\ Live(Len(tasks))

\* C4.  stop_cleanup returns at once when no task was ever started; it
\* returns from its await only when the task it cancelled is done; a task that
\* is done stays done, and while every task is done no step changes a table
\* or a recorded result, and no pass is in progress.
C4_StopReturnsAfterLoopEnds ==
    [][ /\ (StopCancel /\ tasks = <<>>) => stopper'.pc = "returned"
        /\ (stopper.pc = "awaiting" /\ stopper'.pc = "returned")
              => tasks[stopper.target].pc = "done"
        /\ \A t \in Tasks : tasks[t].pc = "done" => tasks'[t] = tasks[t]
        /\ (\A t \in Tasks : tasks[t].pc = "done") =>
              /\ users' = users
              /\ user_permissions' = user_permissions
              /\ last_cleanup' = last_cleanup
              /\ last_cleanup_result' = last_cleanup_result
              /\ \A t \in Tasks : ~InPass(t)'
      ]_vars

\* stop_cleanup has returned and the only task is done; its first pass had
\* removed user 1 and never completed: it was cancelled in the middle.
C4_Witness ==
    /\ stopper = [pc |-> "returned", target |-> 1]
    /\ Len(tasks) = 1
    /\ tasks[1].pc = "done"
    /\ last_cleanup = None
    /\ last_cleanup_result = None
    /\ Removed(1)
    /\ 2 \in DOMAIN users

\* C5.  A hard_delete_user that raises does not end the pass: the pass goes on
\* to a user not yet attempted or, none left, completes as a success; and a
\* pass completes only with every user of its batch attempted, reporting as
\* deleted_users the number of them whose row it removed.
C5_FailureSkipsOneUser ==
    [][ \A t \in Tasks :
          /\ HardDeleteFails(t) =>
                /\ users' = users
                /\ IF tasks[t].todo = {}
                   THEN \E res \in last_cleanup_result' : res.status = "success"
                   ELSE /\ tasks'[t].pc = "del_perms"
                        /\ tasks'[t].cur \in tasks[t].todo
                        /\ tasks'[t].deleted_count = tasks[t].deleted_count
          /\ (tasks[t].pc \in {"del_perms", "del_user"} /\ tasks'[t].pc = "sleeping") =>
                /\ tasks[t].todo = {}
                /\ last_cleanup_result' =
                      {[deleted_users |->
                           Cardinality(tasks[t].expired_users \ DOMAIN users'),
                        status |-> "success"]}
      ]_vars

\* A pass started after day 30 has completed with one user deleted, while
\* another user of its batch (soft deleted at day 0, never recovered) is still
\* there: its hard delete raised.
C5_Witness ==
    /\ last_cleanup_result = {[deleted_users |-> 1, status |-> "success"]}
    /\ \E c \in last_cleanup : c > GracePeriodDays
    /\ \E u \in DOMAIN users : users[u].deleted_at = {0} /\ ~users[u].is_active
    /\ \E t \in Tasks : tasks[t].pc = "sleeping"

\* C6.  hard_delete_user is all-or-nothing: no step removes grants of a user
\* and leaves the user's row, none removes the row and leaves grants of the
\* user; a hard_delete_user that raises, also between its two DELETEs, leaves
\* both tables as they were and the exception reaches the caller.
C6_HardDeleteAllOrNothing ==
    [][ /\ \A u \in UserIds :
              /\ (\E p \in Perms : user_permissions'[<<u, p>>] < user_permissions[<<u, p>>])
                    => u \notin DOMAIN users'
              /\ (u \in DOMAIN users /\ u \notin DOMAIN users')
                    => \A p \in Perms : user_permissions'[<<u, p>>] = 0
        /\ \A t \in Tasks : HardDeleteFails(t) =>
              /\ users' = users
              /\ user_permissions' = user_permissions
              /\ tasks[t].todo # {} =>
                    /\ [id |-> tasks[t].cur, at |-> tasks[t].pc] \in tasks'[t].failed
                    /\ tasks'[t].tx_del = NoTx
      ]_vars

\* A hard delete raised after its first DELETE had run; the user's row and
\* grants are all there.
C6_Witness ==
    \E t \in Tasks : \E f \in tasks[t].failed :
        /\ f.at = "del_user"
        /\ f.id \in DOMAIN users
        /\ \A p \in Perms : user_permissions[<<f.id, p>>] = 1

\* C10.  After soft_delete_user the default lookup finds nothing and the
\* lookup with include_deleted finds the row with deleted_at set; after
\* recover_user the default lookup finds the row, active, with deleted_at and
\* deletion_reason cleared.
C10_SoftDeleteHidesRecoverRestores ==
    [][ \A u \in DOMAIN users :
          /\ (\E r \in Reasons : soft_delete_user(u, r)) =>
                /\ get_user_by_id(u, FALSE)' = None
                /\ \E row \in get_user_by_id(u, TRUE)' :
                      row.id = u /\ row.deleted_at = {now} /\ ~row.is_active
          /\ recover_user(u) =>
                /\ \E row \in get_user_by_id(u, FALSE)' : row.id = u /\ row.is_active
                /\ \E row \in get_user_by_id(u, TRUE)' :
                      row.deleted_at = NULL /\ row.deletion_reason = NULL
      ]_vars

\* User 1 has been recovered from its soft delete of day 0 and the default
\* lookup finds it; user 2 has been recovered and soft deleted again in this
\* run, and only the lookup with include_deleted finds it.
C10_Witness ==
    /\ 1 \in DOMAIN users /\ users[1].is_active /\ users[1].deleted_at = NULL
    /\ get_user_by_id(1, FALSE) # None
    /\ 2 \in DOMAIN users /\ \E d \in users[2].deleted_at : d >= StartDay
    /\ get_user_by_id(2, FALSE) = None /\ get_user_by_id(2, TRUE) # None

\* C7 as stated.  A grant request for a pair the target user holds ends in
\* 409 Conflict and leaves user_permissions unchanged; a grant request for a
\* pair the user does not hold (never granted, or revoked) that reaches the
\* insert ends in 200 with the pair granted.
C7_GrantOfHeldIsConflict ==
    [][ \A r \in Slots : \A u \in UserIds : \A p \in Perms :
          (\/ AuthGrant(r, u, p)
           \/ /\ reqs[r].handler = "admin_grant"
              /\ reqs[r].uid = u /\ reqs[r].perm = p
              /\ reqs'[r].pc = "idle")
          => IF user_has_permission(u, p)
             THEN reqs'[r].status = 409 /\ user_permissions' = user_permissions
             ELSE reqs'[r].status = 200 /\ user_permissions'[<<u, p>>] = 1
      ]_vars

C9_RevokeTwice ==
    [][ \A u \in UserIds : \A p \in Perms :
          revoke_user_permission(u, p) =>
             LET ret == resp'.rets[Len(resp'.rets)] IN
             /\ ret = user_has_permission(u, p)
             /\ ~user_has_permission(u, p)'
             /\ (resp.op = "revoke" /\ resp.uid = u /\ resp.perm = p) =>
                   /\ ret = FALSE
                   /\ user_permissions' = user_permissions
      ]_vars

\* Two calls in a row for one pair: the first returned true, the second false.
C9_Witness ==
    /\ resp.op = "revoke"
    /\ resp.rets = <<TRUE, FALSE>>
    /\ ~user_has_permission(resp.uid, resp.perm)

C12_SoftDeletedNotFound ==
    \A u \in DOMAIN users : users[u].deleted_at # NULL =>
        /\ get_user_by_id(u, FALSE) = None
        /\ get_user_by_email(users[u].email) = None
        /\ \A pw \in Passwords :
              verify_password(pw, users[u].hashed_password) =>
                 authenticate_user_outcome(users[u].email, pw) = Ret("None", 0)

\* C13 as stated.  register_user with an email not registered and a password
\* of at least 8 characters returns a user, and authenticate_user with the
\* same email and password then returns the user of that id.
C13_RegisterThenAuthenticate ==
    [][ \A e \in Emails : \A pw \in Passwords :
          (/\ register_user(e, pw)
           /\ get_user_by_email(e) = None
           /\ Len(pw) >= MinPasswordLen)
          => /\ last_call'.ret.kind = "user"
             /\ authenticate_user_outcome(e, pw)' = last_call'.ret
      ]_vars

\* C14 as stated.  register_user with a password shorter than 8 characters
\* ends in the validation failure (400), register_user with an email already
\* registered ends in the conflict (409), and users is unchanged by both.
C14_ShortIsValidationTakenIsConflict ==
    [][ \A e \in Emails : \A pw \in Passwords :
          register_user(e, pw) =>
             /\ Len(pw) < MinPasswordLen =>
                   last_call'.ret = Ret("HTTPException", 400) /\ users' = users
             /\ get_user_by_email(e) # None =>
                   last_call'.ret = Ret("HTTPException", 409) /\ users' = users
      ]_vars

\* C14, amended.  register_user with an email already registered ends in the
\* conflict (409) whatever the password; with an email not registered and a
\* password shorter than 8 characters it ends in the validation failure
\* (400); users is unchanged by both.
C14_TakenIsConflictElseShortIsValidation ==
    [][ \A e \in Emails : \A pw \in Passwords :
          register_user(e, pw) =>
             /\ (get_user_by_email(e) = None /\ Len(pw) < MinPasswordLen) =>
                   last_call'.ret = Ret("HTTPException", 400) /\ users' = users
             /\ get_user_by_email(e) # None =>
                   last_call'.ret = Ret("HTTPException", 409) /\ users' = users
      ]_vars

\* The latest call is a register_user refused with the conflict for its
\* registered email, though its password was short too.
C14_Witness ==
    /\ last_call.op = "register_user"
    /\ last_call.ret = Ret("HTTPException", 409)
    /\ Len(last_call.password) < MinPasswordLen
    /\ \E u \in DOMAIN users : users[u].email = last_call.email

\* C15 as stated.  No two rows of users have the same email; a register_user
\* for an email not registered, with a password long enough, creates the row
\* of that email, and one for an email that is registered (the other of two
\* calls for one new email) ends in the conflict (409).
C15_OneRegistrationWins ==
    [][ /\ \A u, v \in DOMAIN users' : users'[u].email = users'[v].email => u = v
        /\ \A e \in Emails : \A pw \in Passwords :
              (register_user(e, pw) /\ Len(pw) >= MinPasswordLen) =>
                 IF get_user_by_email(e) = None
                 THEN last_call'.ret.kind = "user" /\ get_user_by_email(e)' # None
                 ELSE last_call'.ret = Ret("HTTPException", 409)
      ]_vars

\* A refresh token of the service, signed with its key and unexpired, whose
\* subject is user u.
ValidRefreshOf(token, u) ==
    /\ verify_token(token) # None
    /\ token.payload.type = {"refresh"}
    /\ token.payload.sub = {Str(u)}

\* C16 as stated.  refresh_access_token of the refresh token that
\* create_tokens(u) returned for an active user u returns a token pair, and
\* the access token of a pair for u verifies with subject u.
C16_RefreshRoundTrip ==
    [][ \A u \in UserIds : \A t \in Presentable :
          (/\ ValidRefreshOf(t, u)
           /\ get_user_by_id(u, FALSE) # None
           /\ refresh_access_token(t))
          => /\ last_call'.ret.kind = "TokenResponse"
             /\ \E pl \in verify_token(create_access_token([sub |-> {Str(u)}]))' :
                   pl.sub = {Str(u)}
      ]_vars

\* C17.  refresh_access_token given a token that create_access_token issued
\* returns None.
C17_AccessTokenNotRefreshed ==
    [][ \A t \in last_call'.tokens :
          ( /\ refresh_access_token(t)
            /\ \E u \in UserIds, day \in StartDay..now :
                  t = Encode({Str(u)}, day + AccessExpiryDays, {}, "secret_key") )
          => last_call'.ret = Ret("None", 0)
      ]_vars

\* The latest call presented the access token issued the same day for user 1,
\* an active user, and was refused.
C17_Witness ==
    /\ last_call.op = "refresh_access_token"
    /\ last_call.ret = Ret("None", 0)
    /\ last_call.tokens = {create_access_token([sub |-> {Str(1)}])}
    /\ \A t \in last_call.tokens : verify_token(t) # None
    /\ get_user_by_id(1, FALSE) # None

\* C18 as stated.  refresh_access_token given a refresh token of the service,
\* unexpired, whose subject is not (or no longer) an active user returns None;
\* and no call of refresh_access_token raises.
C18_RefreshNeverRaises ==
    [][ \A t \in Presentable :
          refresh_access_token(t) =>
             /\ last_call'.ret.kind \in {"None", "TokenResponse"}
             /\ \A u \in UserIds :
                   (ValidRefreshOf(t, u) /\ get_user_by_id(u, FALSE) = None)
                      => last_call'.ret = Ret("None", 0)
      ]_vars
\* What the role of a user gives and what the user was granted.
Baseline(u) == role_permissions(users[u].role)

Granted(u) == {p \in Perms : user_permissions[<<u, p>>] > 0}

\* C19 as stated.  require_resource_ownership returns when the two ids are
\* equal; when they differ it returns exactly when admin_permission is given
\* and is among the caller's effective permissions, and else raises 403.
C19_OwnerOrPermission ==
    [][ \A u \in UserIds, o \in UserIds, ap \in SUBSET (Perms \cup {BasePerm}) :
          require_resource_ownership(u, o, ap) =>
             last_call'.ret =
                IF u = o THEN Ret("return", 0)
                ELSE IF /\ get_user_by_id(u, FALSE) # None
                        /\ ap # {}
                        /\ ap \subseteq Baseline(u) \cup Granted(u)
                     THEN Ret("return", 0)
                     ELSE Ret("HTTPException", 403)
      ]_vars

\* C20 as stated.  The effective permissions of an active user are the
\* permissions of the role together with the explicit grants, whatever the
\* role and the grants: no grant or revoke takes a permission of the role away.
C20_EffectiveIsBaselinePlusGrants ==
    \A u \in DOMAIN users :
        get_user_by_id(u, FALSE) # None =>
           /\ auth_get_user_permissions(u) = Listed(Baseline(u) \cup Granted(u))
           /\ Baseline(u) \subseteq auth_get_user_permissions(u).perms

\* C21 as stated.  require_permission returns exactly when the permission is
\* among the user's effective permissions (those of the role and the explicit
\* grants), and in every other case, an id without active user included,
\* raises Forbidden and nothing else.
C21_ReturnsIffHeldElseForbidden ==
    [][ \A u \in UserIds, p \in Perms \cup {BasePerm} :
          require_permission(u, p) =>
             last_call'.ret =
                IF /\ get_user_by_id(u, FALSE) # None
                   /\ p \in Baseline(u) \cup Granted(u)
                THEN Ret("return", 0)
                ELSE Ret("HTTPException", 403)
      ]_vars

\* An access token create_tokens returned for user u, unexpired.
ValidAccessOf(token, u) ==
    /\ token.key = "secret_key"
    /\ token.payload.type = {}
    /\ token.payload.sub = {Str(u)}
    /\ verify_token(token) # None

\* C24 as stated.  get_current_user given an unexpired access token that
\* create_tokens issued for u returns u while u is an active user, and returns
\* no user once u is soft deleted or hard deleted.
C24_AccessTokenResolvesWhileActive ==
    [][ \A t \in Presentable : \A u \in UserIds :
          (ValidAccessOf(t, u) /\ get_current_user(t)) =>
             IF get_user_by_id(u, FALSE) # None
             THEN last_call'.ret = Ret("user", u)
             ELSE last_call'.ret.kind # "user"
      ]_vars

Caller(token) == {sub.uuid : sub \in UNION {pl.sub : pl \in verify_token(token)}}

CallerHolds(token, permission) ==
    \E u \in Caller(token) :
       /\ get_user_by_id(u, FALSE) # None
       /\ permission \in Baseline(u) \cup Granted(u)

\* C22.  A grant_permission or revoke_permsission request whose caller does
\* not hold ADMIN_MANAGE_PERMISSIONS, and a manual_cleanup request whose caller
\* does not hold ADMIN_MANAGE_SYSTEM, changes no grant and no user, starts no
\* pass, and does not answer with success.
C22_NoMutationWithoutPermission ==
    [][ \A t \in last_call'.tokens :
          /\ \A u \in UserIds, p \in Perms :
                ( /\ grant_permission(t, u, p) \/ revoke_permsission(t, u, p)
                  /\ ~CallerHolds(t, "admin:permissions") )
                => /\ UNCHANGED <<users, user_permissions, schedVars>>
                   /\ last_call'.ret.kind # "response"
          /\ (admin_manual_cleanup(t) /\ ~CallerHolds(t, SystemPerm))
                => /\ UNCHANGED <<users, user_permissions, schedVars>>
                   /\ last_call'.ret.kind # "response"
      ]_vars

\* User 2, of role user and without grants, presented a valid access token to
\* revoke_permsission for user 1, who has a grant of the permission: the
\* request failed and the grant is in place.
C22_Witness ==
    /\ last_call.op = "revoke_permsission"
    /\ last_call.uid = 1
    /\ last_call.tokens = {create_access_token([sub |-> {Str(2)}])}
    /\ ~CallerHolds(create_access_token([sub |-> {Str(2)}]), "admin:permissions")
    /\ get_user_by_id(2, FALSE) # None
    /\ last_call.ret.kind # "response"
    /\ user_permissions[<<1, "admin:permissions">>] > 0

\* The caller a token names is an active user of role admin.
CallerIsAdmin(token) ==
    \E u \in Caller(token) :
       get_user_by_id(u, FALSE) # None /\ users[u].role = "admin"

\* C23 as stated.  delete_user with hard_delete = true: called by an active
\* admin for an account that exists, it removes the row and the grants of the
\* target; called by a user who does not hold ADMIN_DELETE_ANY_USER, it
\* answers 403 and leaves users and grants as they are.
C23_AdminHardDeletesOthersForbidden ==
    [][ \A t \in last_call'.tokens : \A rid \in ResourceIds, uid \in UserIds :
          delete_user(t, rid, uid, TRUE) =>
             /\ (CallerIsAdmin(t) /\ get_user_by_id(uid, FALSE) # None)
                   => uid \notin DOMAIN users' /\ \A p \in Perms : user_permissions'[<<uid, p>>] = 0
             /\ (Caller(t) # {} /\ ~CallerHolds(t, "admin:delete_user"))
                   => /\ last_call'.ret = Ret("HTTPException", 403)
                      /\ UNCHANGED <<users, user_permissions>>
      ]_vars

\* C28 as stated.  recover_account called by an active admin: for an account
\* soft deleted at most 30 days ago it restores the row (200); for one soft
\* deleted earlier it answers 410, and for an account that is active or was
\* never soft deleted it refuses, in both cases leaving the row as it is.
C28_RecoverWithinGraceElseGone ==
    [][ \A t \in last_call'.tokens : \A rid \in ResourceIds, uid \in DOMAIN users :
          (recover_account(t, rid, uid) /\ CallerIsAdmin(t)) =>
             IF ~users[uid].is_active /\ users[uid].deleted_at # NULL
             THEN IF \A d \in users[uid].deleted_at : now - d <= GracePeriodDays
                  THEN /\ users' = recover_rows(uid)
                       /\ last_call'.ret = Ret("response", 200)
                  ELSE /\ users' = users
                       /\ last_call'.ret = Ret("HTTPException", 410)
             ELSE /\ users' = users
                  /\ last_call'.ret.kind = "HTTPException"
      ]_vars

\* C29 as stated.  soft_delete_user called at the repository for a soft
\* deleted user stamps deleted_at anew; delete_user called by an active admin
\* for a soft deleted user answers 404 and leaves deleted_at as it is.
C29_EndpointDoesNotRestamp ==
    [][ \A uid \in DOMAIN users :
          users[uid].deleted_at # NULL =>
             /\ \A r \in Reasons :
                   soft_delete_user(uid, r) => users'[uid].deleted_at = {now}
             /\ \A t \in last_call'.tokens : \A rid \in ResourceIds, hard \in BOOLEAN :
                   (delete_user(t, rid, uid, hard) /\ CallerIsAdmin(t)) =>
                      /\ last_call'.ret = Ret("HTTPException", 404)
                      /\ users' = users
      ]_vars

\* C27 as stated.  The hard delete of a pass removes a row only if the row is,
\* when the DELETE runs, inactive with deleted_at before the cutoff of the
\* pass.
C27_HardDeleteRechecksExpiry ==
    [][ \A t \in Tasks :
          (HardDeleteCommit(t) /\ tasks[t].cur \in DOMAIN users) =>
             /\ ~users[tasks[t].cur].is_active
             /\ \E d \in users[tasks[t].cur].deleted_at : d < tasks[t].cutoff_date
      ]_vars

\* C26: every step of a manual_cleanup call leaves last_cleanup, next_cleanup,
\* last_cleanup_result and the loop's tasks as they are, whatever the loop is
\* doing; the call makes one query, at the cutoff of the day it was called,
\* removes no user outside that query's answer, creates none, and returns the
\* number it removed.
C26_ManualPassLeavesTimerAlone ==
    [][ manual' # manual =>
          /\ UNCHANGED <<tasks, next_cleanup, last_cleanup, last_cleanup_result>>
          /\ manual'.pc = "fetching" <=> manual.pc \in {"idle", "returned", "raised"}
          /\ manual'.pc = "fetching" => manual'.cutoff_date = now - GracePeriodDays
          /\ (manual.pc = "fetching" /\ manual'.pc = "del_perms") =>
                /\ manual'.expired_users =
                      get_expired_soft_deleted_users(manual.cutoff_date)
                /\ {manual'.cur} \cup manual'.todo = manual'.expired_users
          /\ ( /\ manual.pc \in {"del_perms", "del_user"}
                /\ manual'.pc \in {"del_perms", "del_user"} ) =>
                /\ manual'.expired_users = manual.expired_users
                /\ {manual'.cur} \cup manual'.todo \subseteq manual.todo \cup {manual.cur}
          /\ DOMAIN users' \subseteq DOMAIN users
          /\ DOMAIN users \ DOMAIN users' \subseteq {manual.cur} \cap manual.expired_users
          /\ manual'.deleted_count =
                IF manual'.pc = "fetching" THEN 0
                ELSE manual.deleted_count + Cardinality(DOMAIN users \ DOMAIN users')
          /\ manual'.pc = "returned" => manual'.result = {manual'.deleted_count} ]_vars

\* A manual pass is removing a user while one task of the loop is stopped and
\* the next one sleeps, no scheduled pass having run.
C26_Witness ==
    /\ manual.pc = "del_user"
    /\ manual.cur \in DOMAIN users
    /\ \E t \in Tasks : tasks[t].pc = "done"
    /\ \E t \in Tasks : tasks[t].pc = "sleeping"
    /\ last_cleanup = {}

\* C30: with the loop started and never stopped and storage calls that
\* eventually succeed, every soft-deleted user is eventually removed by a pass
\* of the loop unless it is recovered, a failed pass or a failed delete
\* notwithstanding; and a pass removes no user before its 30 days are over.
SoftDeleted(u) == u \in DOMAIN users /\ ~users[u].is_active

C30_ExpiredEventuallyRemoved ==
    /\ \A u \in 1..SeedUsers :
          (TaskRunning /\ SoftDeleted(u)) ~> ~SoftDeleted(u)
    /\ [][ DOMAIN users' # DOMAIN users => now > GracePeriodDays ]_vars

\* A pass failed, and the pass after it is removing a user that is still
\* soft-deleted.
C30_Witness ==
    /\ last_cleanup_result = {[deleted_users |-> 0, status |-> "failed"]}
    /\ \E t \in Tasks :
          /\ tasks[t].pc = "del_user"
          /\ SoftDeleted(tasks[t].cur)

====
